---- MODULE Spec2Model ----
(***************************************************************************)
(* State machine of the DeploySense dashboard: the repository registry and *)
(* review list held by Home, the manual review of RepositoryManager and    *)
(* the pipeline list and tick timers of DeploymentPipeline.                *)
(*                                                                         *)
(* Every handler and every timer callback is one atomic action: the event  *)
(* loop runs one callback at a time and all shared state is changed by     *)
(* functional updaters (prev => ...).  The three components are taken to   *)
(* stay mounted.  Presentational fields no operation reads (branch, url,   *)
(* lastCommit, createdAt, timestamp, pull-request label, suggestion count, *)
(* the review's own id, repository name copies) are left out of the        *)
(* records.                                                                *)
(*                                                                         *)
(* Numbers with a fraction (the accumulated progress of a run) are kept in *)
(* units of 1/HalfUnits percent.                                           *)
(***************************************************************************)
EXTENDS Integers, Sequences, FiniteSets, TLC

VARIABLES
    repositories,   \* Home: useState<Repository[]>
    reviews,        \* Home: useState<ReviewData[]>
    isRefreshing,   \* Home: useState(false)
    pipelines,      \* DeploymentPipeline: useState<Pipeline[]>
    timers,         \* pending 3000 ms timeouts (connect analysis, manual review), oldest first
    refreshTimer,   \* TRUE while the 2000 ms refresh timeout is pending
    intervals,      \* one entry per setInterval of triggerDeployment, in creation order
    now,            \* the reading of Date.now()
    ops,            \* number of user actions made so far
    connects,       \* number of repositories connected so far
    last,           \* the handler or callback that ran last (observation only)
    minQualityScore, \* RepositoryManager: useState(85), the settings slider
    messages,       \* AIChat: useState<Message[]>
    inputMessage,   \* AIChat: useState('')
    isTyping,       \* AIChat: useState(false)
    responseTimers, \* AIChat: pending 1500 ms response timeouts, oldest first
    sends           \* number of chat messages sent so far

vars == <<repositories, reviews, isRefreshing, pipelines, timers, refreshTimer,
          intervals, now, ops, connects, last, minQualityScore,
          messages, inputMessage, isTyping, responseTimers, sends>>

\* the state of the chat component
chat == <<messages, inputMessage, isTyping, responseTimers, sends>>

\* the state of the components a handler of the dashboard does not touch
elsewhere == <<minQualityScore, chat>>

\* the state of the components a handler of the chat does not touch
dashboard == <<repositories, reviews, isRefreshing, pipelines, timers, refreshTimer,
               intervals, now, ops, connects, last, minQualityScore>>

----------------------------------------------------------------------------
(* Bounds of the model *)

\* user actions (clicks) in one run of the page
MaxOps == 2
\* runs created by triggerDeployment
MaxRuns == 2
\* repositories connected by addRepository
MaxRepos == 1
\* chat messages sent
MaxSends == 2

----------------------------------------------------------------------------
(* Program constants *)

\* units per percent of the accumulated progress
HalfUnits == 2
\* triggerDeployment: repo.qualityScore < 85
DeployThreshold == 85
\* analysisScore >= 85 ? 'approved'
ApprovedThreshold == 85
\* analysisScore >= 70 ? 'reviewing'
ReviewingThreshold == 70
\* Math.max(50, ...)
RefreshFloor == 50
\* Date.now() when the page is loaded
ClockStart == 10

\* "https://github.com/" as one token of a URL
Prefix == "https://github.com/"
Slash == "/"

\* URLs typed into the connect input, as token sequences
Urls ==
    { <<Prefix, "acme", Slash, "app">>,
      <<"acme", Slash, "lib">>,
      <<Prefix, "mycompany", Slash, "api-service">>,
      <<Prefix, "onlyowner">>,
      <<Prefix, "acme", Slash, "app", Slash, "tree">>,
      <<Prefix, "acme", Slash>> }

\* values of Math.floor(Math.random() * 40) + 60 that are drawn
AnalysisScores == {69, 70, 85, 99}
\* the draws of one connect analysis: the score, and Math.floor(Math.random() * 5) + 1
AnalysisDraws == {<<69, 1>>, <<70, 5>>, <<85, 3>>, <<99, 5>>}
\* the draws Math.floor(Math.random() * 10) - 5 of one refresh of n repositories:
\* the lowest for all, or the lowest and the highest in turn
RefreshDraws(n) ==
    { [i \in 1..n |-> -5], [i \in 1..n |-> IF i % 2 = 1 THEN -5 ELSE 4] }
\* values of Math.random() * 15 + 5 that the i-th timer draws, in 1/HalfUnits
\* percent: 16.5 (whose third multiple 49.5 rounds to the next stage's first
\* percent) for one timer, 14.0 for the next
TickIncrements(i) == IF i % 2 = 1 THEN {33} ELSE {28}

\* positions the 'Minimum Quality Score for Deployment' slider (50..100) is moved
\* to: its ends, and its initial value
SliderValues == {50, 85, 100}

Environments == {"staging", "production"}
Statuses == {"reviewing", "approved", "rejected", "deploying", "deployed"}
Stages == {"build", "test", "security", "deploy", "completed", "failed"}

\* texts of the chat, as sequences of words and blanks
Space == " "
\* what the user types into the message input: nothing, a blank, a greeting
ChatInputs == { <<>>, <<Space>>, <<"hello">> }
\* the suggestion buttons (lines 452, 543-570)
Suggestions == { <<"Review", Space, "changes">>, <<"Optimize", Space, "pipeline">> }

----------------------------------------------------------------------------
(* Pure helpers *)

Max(a, b) == IF a >= b THEN a ELSE b

\* index of the first element equal to x, 0 when there is none
IndexOf(s, x) ==
    IF \E i \in 1..Len(s) : s[i] = x
    THEN CHOOSE i \in 1..Len(s) : s[i] = x /\ \A j \in 1..(i - 1) : s[j] # x
    ELSE 0

\* String.prototype.replace(Prefix, ''): the first occurrence is removed
StripPrefix(url) ==
    LET i == IndexOf(url, Prefix)
    IN  IF i = 0 THEN url
        ELSE SubSeq(url, 1, i - 1) \o SubSeq(url, i + 1, Len(url))

\* String.prototype.split('/')
RECURSIVE Split(_)
Split(s) ==
    LET i == IndexOf(s, Slash)
    IN  IF i = 0 THEN <<s>>
        ELSE <<SubSeq(s, 1, i - 1)>> \o Split(SubSeq(s, i + 1, Len(s)))

\* repoUrl.replace('https://github.com/', '').split('/')
urlParts(repoUrl) == Split(StripPrefix(repoUrl))

\* mutant of analysisStatus: > 70 instead of >= 70
analysisStatus_StrictReviewing(analysisScore) ==
    IF analysisScore >= ApprovedThreshold THEN "approved"
    ELSE IF analysisScore > ReviewingThreshold THEN "reviewing"
    ELSE "rejected"

\* analysisScore >= 85 ? 'approved' : analysisScore >= 70 ? 'reviewing' : 'rejected'
analysisStatus(analysisScore) ==
    IF analysisScore >= ApprovedThreshold THEN "approved"
    ELSE IF analysisScore >= ReviewingThreshold THEN "reviewing"
    ELSE "rejected"

\* the reading `now` of Date.now() has been given out as an id that is still held
Used ==
    \/ \E i \in 1..Len(repositories) : repositories[i].id = now
    \/ \E i \in 1..Len(pipelines) : pipelines[i].id = now
    \/ \E i \in 1..Len(timers) : timers[i].repoId = now

\* the readings Date.now() can give at the next call that takes an id: the
\* millisecond of the previous id, or a later one (all later ones are alike, and
\* stand for the next integer)
Clock == IF Used THEN {now, now + 1} ELSE {now}

\* a timer callback runs at least a second after the handler that started the
\* timer: a reading of Date.now() that has been given out as an id is not given
\* out again afterwards
TimePasses == now' = IF Used THEN now + 1 ELSE now

\* a click of the user: counted, and bounded by MaxOps
UserAction == ops < MaxOps /\ ops' = ops + 1

\* the counters of the model, left alone by the timer callbacks
counters == <<ops, connects>>

----------------------------------------------------------------------------
(* Initial state: the seed arrays of the useState calls *)

SeedRepositories ==
    << [id |-> 1, owner |-> <<"mycompany">>, name |-> <<"react-dashboard">>,
        qualityScore |-> 92, status |-> "approved", pullRequests |-> 3,
        isAnalyzing |-> FALSE],
       [id |-> 2, owner |-> <<"mycompany">>, name |-> <<"api-service">>,
        qualityScore |-> 87, status |-> "deploying", pullRequests |-> 1,
        isAnalyzing |-> FALSE],
       [id |-> 3, owner |-> <<"mycompany">>, name |-> <<"mobile-app">>,
        qualityScore |-> 74, status |-> "reviewing", pullRequests |-> 2,
        isAnalyzing |-> FALSE] >>

SeedReviews ==
    << [author |-> "john.doe", qualityScore |-> 92,
        status |-> "completed", repositoryId |-> 1],
       [author |-> "jane.smith", qualityScore |-> 87,
        status |-> "completed", repositoryId |-> 2],
       [author |-> "mike.wilson", qualityScore |-> 74,
        status |-> "pending", repositoryId |-> 3] >>

SeedPipelines ==
    << [id |-> 1, repositoryId |-> 1, stage |-> "completed", progress |-> 100,
        duration |-> <<4, 32>>, qualityGate |-> TRUE, environment |-> "production"],
       [id |-> 2, repositoryId |-> 2, stage |-> "deploy", progress |-> 75,
        duration |-> <<3, 45>>, qualityGate |-> TRUE, environment |-> "staging"],
       [id |-> 3, repositoryId |-> 3, stage |-> "failed", progress |-> 45,
        duration |-> <<2, 15>>, qualityGate |-> FALSE, environment |-> "staging"] >>

\* the welcome message the chat starts with (lines 69-93)
WelcomeMessage ==
    [type |-> "ai", content |-> <<>>, category |-> "general", seq |-> 0]

Init ==
    /\ repositories = SeedRepositories
    /\ reviews = SeedReviews
    /\ isRefreshing = FALSE
    /\ pipelines = SeedPipelines
    /\ timers = <<>>
    /\ refreshTimer = FALSE
    /\ intervals = <<>>
    /\ now = ClockStart
    /\ ops = 0
    /\ connects = 0
    /\ last = [op |-> "init", res |-> "none"]
    /\ minQualityScore = 85
    /\ messages = <<WelcomeMessage>>
    /\ inputMessage = <<>>
    /\ isTyping = FALSE
    /\ responseTimers = <<>>
    /\ sends = 0

----------------------------------------------------------------------------
(* Repository registry (Home) *)

\* mutant of newRepo: the repository is not marked as analyzing
newRepo_NotAnalyzing(t, owner, name) ==
    [id |-> t, owner |-> owner, name |-> name, qualityScore |-> 0,
     status |-> "reviewing", pullRequests |-> 0, isAnalyzing |-> FALSE]

\* addRepository: the repository built at lines 155-167
newRepo(t, owner, name) ==
    [id |-> t, owner |-> owner, name |-> name, qualityScore |-> 0,
     status |-> "reviewing", pullRequests |-> 0, isAnalyzing |-> TRUE]

\* mutant of addRepositoryAccepts: the duplicate check is left out
addRepositoryAccepts_NoDuplicateCheck(repoUrl) ==
    Len(urlParts(repoUrl)) = 2

\* mutant of addRepositoryAccepts: only the first repository is compared
addRepositoryAccepts_ChecksFirstOnly(repoUrl) ==
    /\ Len(urlParts(repoUrl)) = 2
    /\ ~\E i \in 1..Len(repositories) :
           /\ i = 1
           /\ repositories[i].owner = urlParts(repoUrl)[1]
           /\ repositories[i].name = urlParts(repoUrl)[2]

\* mutant of addRepositoryAccepts: urlParts.length < 2 instead of !== 2
addRepositoryAccepts_AtLeastTwo(repoUrl) ==
    /\ Len(urlParts(repoUrl)) >= 2
    /\ ~\E i \in 1..Len(repositories) :
           /\ repositories[i].owner = urlParts(repoUrl)[1]
           /\ repositories[i].name = urlParts(repoUrl)[2]

\* addRepository: the message of the Error thrown for a URL, logged by the catch
addRepositoryError(repoUrl) ==
    IF Len(urlParts(repoUrl)) # 2 THEN "Invalid GitHub URL format"
    ELSE "Repository already connected"

\* addRepository: true when the URL is accepted
addRepositoryAccepts(repoUrl) ==
    /\ Len(urlParts(repoUrl)) = 2
    /\ ~\E i \in 1..Len(repositories) :
           /\ repositories[i].owner = urlParts(repoUrl)[1]
           /\ repositories[i].name = urlParts(repoUrl)[2]

\* addRepository(repoUrl), called by handleConnectRepo with a non-blank URL
addRepository(repoUrl) ==
    /\ UserAction
    /\ IF addRepositoryAccepts(repoUrl)
       THEN /\ connects < MaxRepos
            /\ connects' = connects + 1
            /\ \E t \in Clock :
                 /\ now' = t
                 /\ repositories' =
                       Append(repositories,
                              newRepo(t, urlParts(repoUrl)[1], urlParts(repoUrl)[2]))
                 /\ timers' = Append(timers, [kind |-> "analysis", repoId |-> t])
            /\ last' = [op |-> "addRepository", res |-> "true"]
            /\ UNCHANGED <<reviews, isRefreshing, pipelines, refreshTimer, intervals>>
       ELSE /\ last' = [op |-> "addRepository", res |-> "false",
                         error |-> addRepositoryError(repoUrl)]
            /\ UNCHANGED <<repositories, reviews, isRefreshing, pipelines, timers,
                           refreshTimer, intervals, now, connects>>
    /\ UNCHANGED elsewhere

\* mutant of analysisCallback: the review is put at the end of the list
analysisCallback_ReviewAtTail(tm, analysisScore, prCount) ==
    /\ repositories' =
          [i \in 1..Len(repositories) |->
              IF repositories[i].id = tm.repoId
              THEN [repositories[i] EXCEPT !.qualityScore = analysisScore,
                                           !.status = analysisStatus(analysisScore),
                                           !.pullRequests = prCount,
                                           !.isAnalyzing = FALSE]
              ELSE repositories[i]]
    /\ reviews' =
          Append(reviews, [author |-> "ai-analysis", qualityScore |-> analysisScore,
                           status |-> "completed", repositoryId |-> tm.repoId])

\* the setTimeout callback of addRepository (lines 172-204), fired for timer tm
analysisCallback(tm, analysisScore, prCount) ==
    /\ repositories' =
          [i \in 1..Len(repositories) |->
              IF repositories[i].id = tm.repoId
              THEN [repositories[i] EXCEPT !.qualityScore = analysisScore,
                                           !.status = analysisStatus(analysisScore),
                                           !.pullRequests = prCount,
                                           !.isAnalyzing = FALSE]
              ELSE repositories[i]]
    /\ reviews' =
          <<[author |-> "ai-analysis", qualityScore |-> analysisScore,
             status |-> "completed", repositoryId |-> tm.repoId]>> \o reviews

\* removeRepository(repoId): the two filters of lines 217-218
removeRepositoryRepos(repos, repoId) ==
    SelectSeq(repos, LAMBDA repo : repo.id # repoId)

\* mutant of removeRepositoryReviews: the reviews are not cascaded
removeRepositoryReviews_NoCascade(revs, repoId) == revs

removeRepositoryReviews(revs, repoId) ==
    SelectSeq(revs, LAMBDA review : review.repositoryId # repoId)

removeRepository(repoId) ==
    /\ UserAction
    /\ repositories' = removeRepositoryRepos(repositories, repoId)
    /\ reviews' = removeRepositoryReviews(reviews, repoId)
    /\ last' = [op |-> "removeRepository", res |-> "none"]
    /\ UNCHANGED <<isRefreshing, pipelines, timers, refreshTimer, intervals, now,
                   connects>>
    /\ UNCHANGED elsewhere

\* mutant of updateRepositoryStatus: status 'reviewing' also marks the repository
\* as analyzing
updateRepositoryStatus_MarksAnalyzing(repos, repoId, status) ==
    [i \in 1..Len(repos) |->
        IF repos[i].id = repoId
        THEN [repos[i] EXCEPT !.status = status,
                              !.isAnalyzing = (status = "reviewing")]
        ELSE repos[i]]

\* mutant of updateRepositoryStatus: a repository that is deploying keeps its status
updateRepositoryStatus_KeepsDeploying(repos, repoId, status) ==
    [i \in 1..Len(repos) |->
        IF repos[i].id = repoId /\ repos[i].status # "deploying"
        THEN [repos[i] EXCEPT !.status = status]
        ELSE repos[i]]

\* mutant of updateRepositoryStatus: a repository that is not in the list is added
updateRepositoryStatus_Upsert(repos, repoId, status) ==
    IF \E i \in 1..Len(repos) : repos[i].id = repoId
    THEN [i \in 1..Len(repos) |->
            IF repos[i].id = repoId THEN [repos[i] EXCEPT !.status = status]
            ELSE repos[i]]
    ELSE Append(repos, [id |-> repoId, owner |-> <<>>, name |-> <<>>,
                        qualityScore |-> 0, status |-> status, pullRequests |-> 0,
                        isAnalyzing |-> FALSE])

\* updateRepositoryStatus(repoId, status) as the updater it hands to setRepositories
updateRepositoryStatus(repos, repoId, status) ==
    [i \in 1..Len(repos) |->
        IF repos[i].id = repoId THEN [repos[i] EXCEPT !.status = status]
        ELSE repos[i]]

\* refreshRepositories(): the Refresh buttons are disabled while isRefreshing
refreshRepositories ==
    /\ ~isRefreshing
    /\ UserAction
    /\ isRefreshing' = TRUE
    /\ refreshTimer' = TRUE
    /\ last' = [op |-> "refreshRepositories", res |-> "none"]
    /\ UNCHANGED <<repositories, reviews, pipelines, timers, intervals, now, connects>>
    /\ UNCHANGED elsewhere

\* mutant of refreshedScore: without the Math.max(50, ...) floor
refreshedScore_NoFloor(qualityScore, delta) == qualityScore + delta

\* the quality score a refresh gives a repository, for the drawn delta
refreshedScore(qualityScore, delta) == Max(RefreshFloor, qualityScore + delta)

\* the setTimeout callback of refreshRepositories (lines 239-248)
refreshCallback ==
    /\ refreshTimer
    /\ \E delta \in RefreshDraws(Len(repositories)) :
          repositories' =
             [i \in 1..Len(repositories) |->
                [repositories[i] EXCEPT
                    !.qualityScore = refreshedScore(repositories[i].qualityScore,
                                                    delta[i])]]
    /\ isRefreshing' = FALSE
    /\ refreshTimer' = FALSE
    /\ last' = [op |-> "refreshCallback", res |-> "none"]
    /\ TimePasses
    /\ UNCHANGED <<reviews, pipelines, timers, intervals, counters>>
    /\ UNCHANGED elsewhere

----------------------------------------------------------------------------
(* Manual review (RepositoryManager) *)

\* newScore >= 85 ? 'approved' : newScore >= 70 ? 'reviewing' : 'rejected'
newStatus(newScore) ==
    IF newScore >= ApprovedThreshold THEN "approved"
    ELSE IF newScore >= ReviewingThreshold THEN "reviewing"
    ELSE "rejected"

\* triggerManualReview(repoId): the Review button of a repository that is not analyzing
triggerManualReview(repoId) ==
    /\ UserAction
    /\ repositories' = updateRepositoryStatus(repositories, repoId, "reviewing")
    /\ timers' = Append(timers, [kind |-> "manual", repoId |-> repoId])
    /\ last' = [op |-> "triggerManualReview", res |-> "none"]
    /\ UNCHANGED <<reviews, isRefreshing, pipelines, refreshTimer, intervals, now,
                   connects>>
    /\ UNCHANGED elsewhere

\* the setTimeout callback of triggerManualReview (lines 99-103), fired for timer tm
manualReviewCallback(tm, newScore) ==
    /\ repositories' = updateRepositoryStatus(repositories, tm.repoId, newStatus(newScore))
    /\ UNCHANGED reviews

\* the oldest pending 3000 ms timeout fires
timeoutFires ==
    /\ timers # <<>>
    /\ timers' = Tail(timers)
    /\ LET tm == Head(timers)
       IN  IF tm.kind = "analysis"
           THEN \E draw \in AnalysisDraws :
                   /\ analysisCallback(tm, draw[1], draw[2])
                   /\ last' = [op |-> "analysisCallback", res |-> "none"]
           ELSE \E newScore \in AnalysisScores :
                   /\ manualReviewCallback(tm, newScore)
                   /\ last' = [op |-> "manualReviewCallback", res |-> newScore]
    /\ TimePasses
    /\ UNCHANGED <<isRefreshing, pipelines, refreshTimer, intervals, counters>>
    /\ UNCHANGED elsewhere

----------------------------------------------------------------------------
(* Deployment pipeline (DeploymentPipeline) *)

\* mutant of newPipeline: the environment argument is not passed on
newPipeline_AlwaysStaging(t, repo, environment) ==
    [id |-> t, repositoryId |-> repo.id, stage |-> "build", progress |-> 0,
     duration |-> <<0, 0>>, qualityGate |-> TRUE, environment |-> "staging"]

\* triggerDeployment: the run built at lines 764-775
newPipeline(t, repo, environment) ==
    [id |-> t, repositoryId |-> repo.id, stage |-> "build", progress |-> 0,
     duration |-> <<0, 0>>, qualityGate |-> TRUE, environment |-> environment]

\* mutant of gateRejects: the gate compares with the 'reviewing' threshold
gateRejects_ReviewingThreshold(repo) == repo.qualityScore < ReviewingThreshold

\* mutant of gateRejects: the gate is left out
gateRejects_Never(repo) == FALSE

\* mutant of gateRejects: the gate compares with the slider's setting
gateRejects_MinQualityScore(repo) == repo.qualityScore < minQualityScore

\* mutant of gateRejects: a repository with a run in progress is refused too
gateRejects_Busy(repo) ==
    \/ repo.qualityScore < DeployThreshold
    \/ \E i \in 1..Len(pipelines) :
          /\ pipelines[i].repositoryId = repo.id
          /\ pipelines[i].stage # "completed"
          /\ pipelines[i].stage # "failed"

\* triggerDeployment: the quality gate of lines 759-762
gateRejects(repo) == repo.qualityScore < DeployThreshold

\* triggerDeployment(repo, environment), called by handler `via`
triggerDeployment(repo, environment, via) ==
    IF gateRejects(repo)
    THEN /\ last' = [op |-> via, res |-> "rejected"]
         /\ UNCHANGED <<repositories, pipelines, intervals, now>>
    ELSE \E t \in Clock :
         /\ Len(intervals) < MaxRuns
         /\ now' = t
         /\ pipelines' = <<newPipeline(t, repo, environment)>> \o pipelines
         /\ repositories' = updateRepositoryStatus(repositories, repo.id, "deploying")
         /\ intervals' = Append(intervals, [pid |-> t, repoId |-> repo.id,
                                            progress |-> 0, ticks |-> 0,
                                            active |-> TRUE])
         /\ last' = [op |-> via, res |-> "created"]

\* the Deploy Staging / Deploy Prod buttons (lines 1090-1109) of repositories[i]
deployButton(i, environment) ==
    /\ UserAction
    /\ ~(repositories[i].qualityScore < DeployThreshold \/ repositories[i].isAnalyzing)
    /\ triggerDeployment(repositories[i], environment, "triggerDeployment")
    /\ UNCHANGED <<reviews, isRefreshing, timers, refreshTimer, connects>>
    /\ UNCHANGED elsewhere

\* mutant of tickProgress: without the assignment progress = 100 (line 789)
tickProgress_NoClamp(progress, increment) == progress + increment

\* the accumulated progress after one more tick
tickProgress(progress, increment) ==
    IF progress + increment >= 100 * HalfUnits THEN 100 * HalfUnits
    ELSE progress + increment

\* stages[currentStageIndex] for the accumulated progress
tickStage(progress) ==
    IF progress >= 100 * HalfUnits THEN "completed"
    ELSE <<"build", "test", "security", "deploy", "completed">>
            [((progress * 4) \div (100 * HalfUnits)) + 1]

\* Math.round(progress)
roundProgress(progress) == (2 * progress + HalfUnits) \div (2 * HalfUnits)

\* the duration label: Math.floor(progress / 10), Math.floor((progress % 10) * 6)
tickDuration(progress) ==
    << progress \div (10 * HalfUnits), ((progress % (10 * HalfUnits)) * 6) \div HalfUnits >>

\* the updater the tick hands to setPipelines (lines 797-808)
tickPipelines(runs, pid, progress) ==
    [i \in 1..Len(runs) |->
        IF runs[i].id = pid
        THEN [runs[i] EXCEPT !.stage = tickStage(progress),
                             !.progress = roundProgress(progress),
                             !.duration = tickDuration(progress)]
        ELSE runs[i]]

\* one firing of the setInterval callback (lines 785-809) of intervals[i]
tick(i, increment) ==
    LET iv == intervals[i]
        progress == tickProgress(iv.progress, increment)
        done == progress >= 100 * HalfUnits
    IN  /\ iv.active
        /\ intervals' = [intervals EXCEPT ![i].progress = progress,
                                          ![i].ticks = iv.ticks + 1,
                                          ![i].active = ~done]
        /\ repositories' = IF done
                           THEN updateRepositoryStatus(repositories, iv.repoId, "deployed")
                           ELSE repositories
        /\ pipelines' = tickPipelines(pipelines, iv.pid, progress)
        /\ TimePasses
        /\ UNCHANGED <<reviews, isRefreshing, timers, refreshTimer, counters, last>>
        /\ UNCHANGED elsewhere

\* the updater cancelDeployment hands to setPipelines (lines 816-822)
cancelPipelines(runs, pipelineId) ==
    [i \in 1..Len(runs) |->
        IF /\ runs[i].id = pipelineId
           /\ runs[i].stage # "completed"
           /\ runs[i].stage # "failed"
        THEN [runs[i] EXCEPT !.stage = "failed", !.progress = runs[i].progress]
        ELSE runs[i]]

\* mutant of cancelDeployment: the repository of the run is set back to 'approved'
cancelDeployment_ResetsStatus(pipelineId) ==
    /\ UserAction
    /\ pipelines' = cancelPipelines(pipelines, pipelineId)
    /\ repositories' =
          [j \in 1..Len(repositories) |->
              IF \E i \in 1..Len(pipelines) :
                    /\ pipelines[i].id = pipelineId
                    /\ pipelines[i].repositoryId = repositories[j].id
              THEN [repositories[j] EXCEPT !.status = "approved"]
              ELSE repositories[j]]
    /\ last' = [op |-> "cancelDeployment", res |-> "none"]
    /\ UNCHANGED <<reviews, isRefreshing, timers, refreshTimer, intervals,
                   now, connects>>
    /\ UNCHANGED elsewhere

\* cancelDeployment(pipelineId): the Cancel button of a run that is not terminal
cancelDeployment(pipelineId) ==
    /\ UserAction
    /\ pipelines' = cancelPipelines(pipelines, pipelineId)
    /\ last' = [op |-> "cancelDeployment", res |-> "none"]
    /\ UNCHANGED <<repositories, reviews, isRefreshing, timers, refreshTimer, intervals,
                   now, connects>>
    /\ UNCHANGED elsewhere

\* Array.prototype.find: the index of the first element with this id, 0 when none
FindById(s, id) ==
    IF \E i \in 1..Len(s) : s[i].id = id
    THEN CHOOSE i \in 1..Len(s) : s[i].id = id /\ \A j \in 1..(i - 1) : s[j].id # id
    ELSE 0

\* retryDeployment(pipelineId): the Retry button of a failed run
retryDeployment(pipelineId) ==
    LET pi == FindById(pipelines, pipelineId)
        ri == IF pi = 0 THEN 0 ELSE FindById(repositories, pipelines[pi].repositoryId)
    IN  /\ UserAction
        /\ IF pi # 0 /\ ri # 0
           THEN triggerDeployment(repositories[ri], pipelines[pi].environment,
                                  "retryDeployment")
           ELSE /\ last' = [op |-> "retryDeployment", res |-> "no repository"]
                /\ UNCHANGED <<repositories, pipelines, intervals, now>>
        /\ UNCHANGED <<reviews, isRefreshing, timers, refreshTimer, connects>>
        /\ UNCHANGED elsewhere

\* the settings slider: onChange={(e) => setMinQualityScore(Number(e.target.value))}
setMinQualityScore(value) ==
    /\ UserAction
    /\ value # minQualityScore
    /\ minQualityScore' = value
    /\ last' = [op |-> "setMinQualityScore", res |-> "none"]
    /\ UNCHANGED <<repositories, reviews, isRefreshing, pipelines, timers, refreshTimer,
                   intervals, now, connects>>
    /\ UNCHANGED chat

\* the Review button of repositories[i], disabled while it is analyzing
reviewButton(i) ==
    /\ ops < MaxOps
    /\ ~repositories[i].isAnalyzing
    /\ triggerManualReview(repositories[i].id)

\* the Cancel button of pipelines[i], shown while the run is not terminal
cancelButton(i) ==
    /\ ops < MaxOps
    /\ pipelines[i].stage # "completed" /\ pipelines[i].stage # "failed"
    /\ cancelDeployment(pipelines[i].id)

\* the Retry button of pipelines[i], shown while the run is failed
retryButton(i) ==
    /\ ops < MaxOps
    /\ pipelines[i].stage = "failed"
    /\ retryDeployment(pipelines[i].id)

----------------------------------------------------------------------------
(* AI chat (AIChat) *)

\* String.prototype.trim()
RECURSIVE TrimStart(_)
TrimStart(s) == IF s # <<>> /\ Head(s) = Space THEN TrimStart(Tail(s)) ELSE s

RECURSIVE TrimEnd(_)
TrimEnd(s) ==
    IF s # <<>> /\ s[Len(s)] = Space THEN TrimEnd(SubSeq(s, 1, Len(s) - 1)) ELSE s

Trim(s) == TrimEnd(TrimStart(s))

\* String.prototype.toLowerCase()
toLowerCase(s) ==
    [i \in 1..Len(s) |-> CASE s[i] = "Review" -> "review"
                           [] s[i] = "Optimize" -> "optimize"
                           [] OTHER -> s[i]]

\* String.prototype.includes(word)
includes(s, word) == IndexOf(s, word) # 0

\* the category of the response generateAIResponse builds (lines 111-298)
responseCategory(userMessage) ==
    LET lowerMessage == toLowerCase(userMessage)
    IN  IF includes(lowerMessage, "review") \/ includes(lowerMessage, "code")
        THEN "code-review"
        ELSE IF includes(lowerMessage, "deploy") \/ includes(lowerMessage, "pipeline")
        THEN "deployment"
        ELSE IF includes(lowerMessage, "security")
                  \/ includes(lowerMessage, "vulnerability")
        THEN "optimization"
        ELSE IF includes(lowerMessage, "performance")
                  \/ includes(lowerMessage, "optimize")
        THEN "optimization"
        ELSE "general"

\* generateAIResponse(userMessage); seq names the user message it answers
generateAIResponse(userMessage, seq) ==
    [type |-> "ai", content |-> <<>>, category |-> responseCategory(userMessage),
     seq |-> seq]

\* onChange of the message input (line 522)
setInputMessage(value) ==
    /\ value # inputMessage
    /\ inputMessage' = value
    /\ UNCHANGED <<messages, isTyping, responseTimers, sends>>
    /\ UNCHANGED dashboard

\* handleSuggestionClick (lines 330-333)
handleSuggestionClick(suggestion) ==
    /\ inputMessage' = suggestion
    /\ UNCHANGED <<messages, isTyping, responseTimers, sends>>
    /\ UNCHANGED dashboard

\* handleSendMessage (lines 304-325)
handleSendMessage ==
    IF Trim(inputMessage) = <<>>
    THEN UNCHANGED chat
    ELSE /\ sends < MaxSends
         /\ sends' = sends + 1
         /\ messages' = Append(messages, [type |-> "user", content |-> inputMessage,
                                          category |-> "none", seq |-> sends + 1])
         /\ inputMessage' = <<>>
         /\ isTyping' = TRUE
         /\ responseTimers' = Append(responseTimers,
                                     [inputMessage |-> inputMessage, seq |-> sends + 1])

\* the Send button (lines 526-532), disabled on a blank input and while typing
sendButton ==
    /\ ~(Trim(inputMessage) = <<>> \/ isTyping)
    /\ handleSendMessage
    /\ UNCHANGED dashboard

\* the Enter key in the message input (line 523)
enterKey ==
    /\ handleSendMessage
    /\ UNCHANGED dashboard

\* the setTimeout callback of handleSendMessage (lines 320-324)
responseCallback ==
    /\ responseTimers # <<>>
    /\ messages' = Append(messages,
                          generateAIResponse(Head(responseTimers).inputMessage,
                                             Head(responseTimers).seq))
    /\ isTyping' = FALSE
    /\ responseTimers' = Tail(responseTimers)
    /\ UNCHANGED <<inputMessage, sends>>
    /\ UNCHANGED dashboard

\* clearChat (lines 352-356), confirmed
clearChat ==
    /\ messages' = <<messages[1]>>
    /\ UNCHANGED <<inputMessage, isTyping, responseTimers, sends>>
    /\ UNCHANGED dashboard

----------------------------------------------------------------------------

Next ==
    \/ \E repoUrl \in Urls : addRepository(repoUrl)
    \/ timeoutFires
    \/ \E i \in 1..Len(repositories) : removeRepository(repositories[i].id)
    \/ refreshRepositories
    \/ refreshCallback
    \/ \E i \in 1..Len(repositories) : reviewButton(i)
    \/ \E i \in 1..Len(repositories), environment \in Environments :
          deployButton(i, environment)
    \/ \E i \in 1..Len(intervals) : \E increment \in TickIncrements(i) : tick(i, increment)
    \/ \E i \in 1..Len(pipelines) : cancelButton(i)
    \/ \E i \in 1..Len(pipelines) : retryButton(i)
    \/ \E value \in SliderValues : setMinQualityScore(value)

Spec == Init /\ [][Next]_vars

\* The chat shares no state with the dashboard (it reads repositories and
\* reviews for the text of its responses only), so its behaviours are those of
\* its own handlers and timers.
ChatNext ==
    \/ \E value \in ChatInputs : setInputMessage(value)
    \/ \E suggestion \in Suggestions : handleSuggestionClick(suggestion)
    \/ sendButton
    \/ enterKey
    \/ responseCallback
    \/ clearChat

ChatSpec == Init /\ [][ChatNext]_vars

\* the timer callbacks, which the event loop runs once they are due
tickOf(i) == i <= Len(intervals) /\ \E increment \in TickIncrements(i) : tick(i, increment)

Fairness ==
    /\ WF_vars(timeoutFires)
    /\ WF_vars(refreshCallback)
    /\ \A i \in 1..MaxRuns : WF_vars(tickOf(i))

FairSpec == Init /\ [][Next]_vars /\ Fairness

----------------------------------------------------------------------------
(* Vocabulary of the properties *)

Range(s) == {s[i] : i \in 1..Len(s)}

\* the n-th run of the list counted from its end: runs are only ever prepended,
\* so this names the same run in every state
RunAt(n) == pipelines[Len(pipelines) - n + 1]

\* the run that intervals[i] was created for
CreatedRun(i) == RunAt(Len(SeedPipelines) + i)

\* this step is a call triggerDeployment(repo, environment), from a Deploy button
\* or from retryDeployment
TriggerInvoked(repo, environment) ==
    \/ \E i \in 1..Len(repositories) :
          deployButton(i, environment) /\ repositories[i] = repo
    \/ \E i \in 1..Len(pipelines) :
          LET pi == FindById(pipelines, pipelines[i].id)
              ri == FindById(repositories, pipelines[pi].repositoryId)
          IN  /\ retryButton(i)
              /\ ri # 0
              /\ repositories[ri] = repo
              /\ pipelines[pi].environment = environment

----------------------------------------------------------------------------
(* C1 *)

\* C1: a call of triggerDeployment (staging or production) on a repository whose
\* quality score is below 85 creates no run, schedules no tick timer and leaves
\* the pipeline list and every repository, its status included, unchanged.
C1_RejectedDeploymentChangesNothing ==
    [][\A repo \in Range(repositories), environment \in Environments :
          (repo.qualityScore < 85 /\ TriggerInvoked(repo, environment))
          => /\ pipelines' = pipelines
             /\ intervals' = intervals
             /\ repositories' = repositories]_vars

\* C1 witness: retryDeployment has just called triggerDeployment on a repository
\* below 85 (the seed failed run of mobile-app, score 74), and was refused
C1_Witness ==
    /\ last = [op |-> "retryDeployment", res |-> "rejected"]
    /\ \E p \in Range(pipelines), repo \in Range(repositories) :
          p.stage = "failed" /\ repo.id = p.repositoryId /\ repo.qualityScore < 85

----------------------------------------------------------------------------
(* C2 *)

\* C2: cancelDeployment on a run that is neither 'completed' nor 'failed' sets its
\* stage to 'failed' and keeps its progress, and there is no further ticking: from
\* then on the run keeps stage 'failed' and that progress, also when its tick timer
\* was still running.  (Refuted: the interval is not cleared by cancelDeployment.)
C2_CancelFreezesRun ==
    [][/\ \A i \in 1..Len(pipelines) :
             cancelButton(i)
             => /\ Len(pipelines') = Len(pipelines)
                /\ pipelines'[i].stage = "failed"
                /\ pipelines'[i].progress = pipelines[i].progress
       /\ \A n \in 1..Len(pipelines) :
             RunAt(n).stage = "failed"
             => /\ RunAt(n)'.stage = "failed"
                /\ RunAt(n)'.progress = RunAt(n).progress]_vars

----------------------------------------------------------------------------
(* C3 *)

\* C3: after a successful triggerDeployment, under fair firing of the tick timer,
\* the created run eventually has progress 100 and stage 'completed'; and in the
\* tick that reaches progress 100 the owning repository, if still in the registry,
\* gets status 'deployed'.
C3_DeploymentCompletes ==
    /\ \A i \in 1..MaxRuns :
          (Len(intervals) >= i)
          ~> (/\ Len(intervals) >= i
              /\ CreatedRun(i).stage = "completed"
              /\ CreatedRun(i).progress = 100)
    /\ [][\A i \in 1..Len(intervals) :
             (intervals[i].active /\ ~intervals'[i].active)
             => \A j \in 1..Len(repositories) :
                   repositories[j].id = intervals[i].repoId
                   => repositories'[j].status = "deployed"]_vars

\* C3 witness: a run made by triggerDeployment has ticked to the end, and its
\* repository is in the registry
C3_Witness ==
    \E i \in 1..Len(intervals) :
       /\ ~intervals[i].active
       /\ CreatedRun(i).stage = "completed"
       /\ CreatedRun(i).progress = 100
       /\ \E repo \in Range(repositories) :
             repo.id = intervals[i].repoId /\ repo.status = "deployed"

----------------------------------------------------------------------------
(* C4 *)

\* C4: a successful triggerDeployment(repo, env), repo's quality score >= 85, adds
\* exactly one run at the head of the pipeline list, with stage 'build', progress
\* 0, qualityGate true, environment env and repositoryId repo.id, leaves the
\* existing runs unchanged and sets the owning repository's status to 'deploying'.
C4_TriggerCreatesRun ==
    [][\A repo \in Range(repositories), environment \in Environments :
          (repo.qualityScore >= 85 /\ TriggerInvoked(repo, environment))
          => /\ Len(pipelines') = Len(pipelines) + 1
             /\ Tail(pipelines') = pipelines
             /\ Head(pipelines').stage = "build"
             /\ Head(pipelines').progress = 0
             /\ Head(pipelines').qualityGate = TRUE
             /\ Head(pipelines').environment = environment
             /\ Head(pipelines').repositoryId = repo.id
             /\ repositories' =
                   [j \in 1..Len(repositories) |->
                      IF repositories[j].id = repo.id
                      THEN [repositories[j] EXCEPT !.status = "deploying"]
                      ELSE repositories[j]]]_vars

\* C4 witness: a Deploy button has just created a production run
C4_Witness ==
    /\ last = [op |-> "triggerDeployment", res |-> "created"]
    /\ Len(pipelines) = Len(SeedPipelines) + 1
    /\ Head(pipelines).stage = "build"
    /\ Head(pipelines).environment = "production"
    /\ \E repo \in Range(repositories) :
          repo.id = Head(pipelines).repositoryId /\ repo.status = "deploying"

----------------------------------------------------------------------------
(* C5 *)

----------------------------------------------------------------------------
(* C6 *)

\* C6: removeRepository(id) removes the repository with that id and every review
\* whose repositoryId is id, and leaves every other repository and every other
\* review unchanged and in the same relative order.
C6_RemoveCascadesToReviews ==
    [][\A i \in 1..Len(repositories) :
          removeRepository(repositories[i].id)
          => /\ repositories' =
                   SelectSeq(repositories, LAMBDA r : r.id # repositories[i].id)
             /\ reviews' =
                   SelectSeq(reviews, LAMBDA v : v.repositoryId # repositories[i].id)]_vars

\* C6 witness: a seed repository and its review have just been removed, the other
\* two of each are left
C6_Witness ==
    /\ last.op = "removeRepository"
    /\ Len(repositories) = Len(SeedRepositories) - 1
    /\ Len(reviews) = Len(SeedReviews) - 1
    /\ \A v \in Range(reviews) : \E r \in Range(repositories) : r.id = v.repositoryId

----------------------------------------------------------------------------
(* C7 *)

\* number of '/' tokens of a token sequence
SlashCount(s) == Cardinality({i \in 1..Len(s) : s[i] = Slash})

\* a valid connect URL: two segments, and owner/name not tracked
ValidConnect(url) ==
    /\ SlashCount(StripPrefix(url)) = 1
    /\ \A r \in Range(repositories) :
          ~(r.owner = urlParts(url)[1] /\ r.name = urlParts(url)[2])

\* C7: for every valid connect URL addRepository returns true and appends exactly
\* one repository with isAnalyzing = true, status 'reviewing', quality score 0 and
\* pull-request count 0, leaving the existing repositories and the reviews
\* unchanged at that moment.
C7_ConnectAddsAnalyzingRepository ==
    [][\A url \in Urls :
          (addRepository(url) /\ ValidConnect(url))
          => /\ last'.res = "true"
             /\ Len(repositories') = Len(repositories) + 1
             /\ SubSeq(repositories', 1, Len(repositories)) = repositories
             /\ LET r == repositories'[Len(repositories')]
                IN  /\ r.isAnalyzing = TRUE
                    /\ r.status = "reviewing"
                    /\ r.qualityScore = 0
                    /\ r.pullRequests = 0
                    /\ r.owner = urlParts(url)[1]
                    /\ r.name = urlParts(url)[2]
             /\ reviews' = reviews]_vars

\* C7 witness: a connect has just been accepted and its repository is analyzing
C7_Witness ==
    /\ last = [op |-> "addRepository", res |-> "true"]
    /\ Len(repositories) = Len(SeedRepositories) + 1
    /\ repositories[Len(repositories)].isAnalyzing
    /\ repositories[Len(repositories)].qualityScore = 0

----------------------------------------------------------------------------
(* C8 *)

\* this step is the connect analysis callback of the oldest pending timeout
AnalysisFires == timers # <<>> /\ Head(timers).kind = "analysis" /\ timeoutFires

\* this step is the manual review callback of the oldest pending timeout
ManualReviewFires == timers # <<>> /\ Head(timers).kind = "manual" /\ timeoutFires

\* the status the spec gives a score
StatusOfScore(score) ==
    CASE score >= 85 -> "approved"
      [] score >= 70 /\ score < 85 -> "reviewing"
      [] score < 70 -> "rejected"

\* C8: when the connect analysis of a repository still in the registry completes,
\* the repository gets isAnalyzing = false, a quality score in 60..99, a
\* pull-request count in 1..5 and the status that matches the score.
C8_AnalysisCompletion ==
    [][AnalysisFires
       => \A j \in 1..Len(repositories) :
             repositories[j].id = Head(timers).repoId
             => /\ repositories'[j].isAnalyzing = FALSE
                /\ repositories'[j].qualityScore \in 60..99
                /\ repositories'[j].pullRequests \in 1..5
                /\ repositories'[j].status
                      = StatusOfScore(repositories'[j].qualityScore)]_vars

\* C8 witness: the analysis of a connected repository has just completed with the
\* score 70, the lowest that is classified 'reviewing'
C8_Witness ==
    /\ last.op = "analysisCallback"
    /\ \E r \in Range(repositories) :
          /\ r.id >= ClockStart
          /\ ~r.isAnalyzing
          /\ r.qualityScore = 70
          /\ r.status = "reviewing"

----------------------------------------------------------------------------
(* C9 *)

\* the repositories a connect can make: id, owner, name
RepoKeys ==
    { <<t, urlParts(url)[1], urlParts(url)[2]>> :
         t \in ClockStart..(ClockStart + MaxOps),
         url \in {u \in Urls : Len(urlParts(u)) = 2} }

IsKey(r, k) == r.id = k[1] /\ r.owner = k[2] /\ r.name = k[3]

\* the repository k is in the registry and is analyzing
Analyzing(k) == \E r \in Range(repositories) : IsKey(r, k) /\ r.isAnalyzing

\* C9: every repository that has isAnalyzing = true and stays in the registry
\* eventually has isAnalyzing = false (fair timers); the flag is cleared by one
\* update only, the analysis callback of that repository's id; and once cleared it
\* never becomes true again, whatever is done afterwards.
C9_AnalyzingClearedOnce ==
    /\ \A k \in RepoKeys : Analyzing(k) ~> ~Analyzing(k)
    /\ [][\A r \in Range(repositories), q \in Range(repositories') :
             (r.id = q.id /\ r.owner = q.owner /\ r.name = q.name)
             => /\ (r.isAnalyzing /\ ~q.isAnalyzing)
                   => (AnalysisFires /\ Head(timers).repoId = r.id)
                /\ ~r.isAnalyzing => ~q.isAnalyzing]_vars

\* C9 witness: a connected repository was analyzed (score 99, 'approved') and a
\* manual review was then triggered on it: its status is 'reviewing' and it is
\* still not analyzing
C9_Witness ==
    /\ last.op = "triggerManualReview"
    /\ \E r \in Range(repositories) :
          /\ r.id >= ClockStart
          /\ r.qualityScore = 99
          /\ r.status = "reviewing"
          /\ ~r.isAnalyzing

----------------------------------------------------------------------------
(* C10 *)

\* C10: a manual review sets the status to 'reviewing' at once, and when its delay
\* elapses the repository's quality score is the drawn score and its status is
\* the classification of that score.  (Refuted: the callback calls only
\* onUpdateStatus; the drawn score is never stored.)
C10_ManualReviewAppliesScore ==
    [][/\ \A i \in 1..Len(repositories) :
             reviewButton(i) => repositories'[i].status = "reviewing"
       /\ \A score \in AnalysisScores :
             (ManualReviewFires /\ last'.res = score)
             => \A j \in 1..Len(repositories) :
                   repositories[j].id = Head(timers).repoId
                   => /\ repositories'[j].qualityScore = score
                      /\ repositories'[j].status = StatusOfScore(score)]_vars

----------------------------------------------------------------------------
(* C11 *)

\* the owner and the name the URL names are those of a repository of the registry
NamesTracked(url) ==
    \E r \in Range(repositories) :
       /\ SlashCount(StripPrefix(url)) = 1
       /\ r.owner = urlParts(url)[1]
       /\ r.name = urlParts(url)[2]

\* C11: connecting a URL whose owner and name are those of a repository already
\* in the registry returns false, leaves the repository list and the review list
\* unchanged and schedules no analysis timer.
C11_DuplicateConnectRejected ==
    [][\A url \in Urls :
          (addRepository(url) /\ NamesTracked(url))
          => /\ last'.res = "false"
             /\ repositories' = repositories
             /\ reviews' = reviews
             /\ timers' = timers]_vars

\* C11 witness: a connect has just been refused as a duplicate
C11_Witness ==
    /\ last.op = "addRepository"
    /\ last.res = "false"
    /\ last.error = "Repository already connected"
    /\ \E url \in Urls : NamesTracked(url)

----------------------------------------------------------------------------
(* C12 *)

\* C12: connecting a URL that, without the prefix, does not split on '/' into
\* exactly two segments returns false, with no change of the repository list or
\* the review list and no timer scheduled.
C12_MalformedConnectRejected ==
    [][\A url \in Urls :
          (addRepository(url) /\ SlashCount(StripPrefix(url)) # 1)
          => /\ last'.res = "false"
             /\ repositories' = repositories
             /\ reviews' = reviews
             /\ timers' = timers]_vars

\* C12 witness: a connect has just been refused for its format
C12_Witness ==
    /\ last.op = "addRepository"
    /\ last.res = "false"
    /\ last.error = "Invalid GitHub URL format"
    /\ repositories = SeedRepositories

----------------------------------------------------------------------------
(* C13 *)

\* C13: a URL with an empty owner or an empty name is rejected, so no repository
\* of the registry ever has an empty owner or an empty name.  (Refuted: only the
\* number of segments is tested; https://github.com/acme/ is accepted with the
\* name ''.)
C13_NoEmptyOwnerOrName ==
    \A r \in Range(repositories) : r.owner # <<>> /\ r.name # <<>>

----------------------------------------------------------------------------
(* C14 *)

\* C14: in every reachable state every repository's quality score is an integer
\* between 0 and 100 inclusive.  (Refuted: a refresh adds up to +4 to the score
\* with a floor of 50 and no ceiling.)
C14_QualityScoreInRange ==
    \A r \in Range(repositories) : r.qualityScore \in 0..100

----------------------------------------------------------------------------
(* C15 *)

\* C15: for every run created by triggerDeployment the stored progress never
\* decreases from one state to the next while the run is not failed, and it
\* always stays within 0..100.  (Refuted: two runs created in the same
\* millisecond share their id, and each of the two timers writes its own
\* progress into both.)
C15_ProgressMonotone ==
    /\ [](\A i \in 1..Len(intervals) : CreatedRun(i).progress \in 0..100)
    /\ [][\A i \in 1..Len(intervals) :
             CreatedRun(i).stage # "failed"
             => CreatedRun(i)'.progress >= CreatedRun(i).progress]_vars

----------------------------------------------------------------------------
(* C16 *)

\* the stage the spec gives a stored progress
StageOfProgress(p) ==
    CASE p < 25 -> "build"
      [] p >= 25 /\ p < 50 -> "test"
      [] p >= 50 /\ p < 75 -> "security"
      [] p >= 75 /\ p < 100 -> "deploy"
      [] p >= 100 -> "completed"

\* C16: after every tick of a run, the run's stage is the one given by its stored
\* (rounded) progress: 'build' below 25, 'test' in 25..49, 'security' in 50..74,
\* 'deploy' in 75..99, 'completed' exactly at 100; no run has stored progress 100
\* with another stage.  (Refuted: the stage is computed from the accumulated
\* progress, the stored progress is rounded to nearest: 49.5 is stored as 50 with
\* stage 'test'.)
C16_StageMatchesStoredProgress ==
    /\ [](\A p \in Range(pipelines) : p.progress = 100 => p.stage = "completed")
    /\ [][\A i \in 1..Len(intervals) :
             tickOf(i)
             => CreatedRun(i)'.stage = StageOfProgress(CreatedRun(i)'.progress)]_vars

----------------------------------------------------------------------------
(* C17 *)

\* C17: once a run has stage 'completed' it is terminal: its tick timer is
\* stopped, and no later tick, cancel or retry changes its stage, progress or
\* duration.  (Refuted: of two runs created in the same millisecond, the one
\* that completes first marks both 'completed', and the other's timer, still
\* running, then rewrites both.)
C17_CompletedIsTerminal ==
    /\ [](\A i \in 1..Len(intervals) :
             CreatedRun(i).stage = "completed" => ~intervals[i].active)
    /\ [][\A n \in 1..Len(pipelines) :
             RunAt(n).stage = "completed"
             => /\ RunAt(n)'.stage = "completed"
                /\ RunAt(n)'.progress = RunAt(n).progress
                /\ RunAt(n)'.duration = RunAt(n).duration]_vars

----------------------------------------------------------------------------
(* C18 *)

\* the repository of the i-th created run is not in the registry
Orphan(i) == \A r \in Range(repositories) : r.id # intervals[i].repoId

\* C18: removeRepository leaves the pipeline list (and the tick timers) unchanged;
\* a run of a removed repository that is still ticking keeps advancing to
\* 'completed' (fair timers), and its ticks do not re-add the repository: they
\* leave the registry as it is.
C18_RemoveKeepsRuns ==
    /\ [][\A i \in 1..Len(repositories) :
             removeRepository(repositories[i].id)
             => pipelines' = pipelines /\ intervals' = intervals]_vars
    /\ [][\A i \in 1..Len(intervals) :
             (tickOf(i) /\ Orphan(i)) => repositories' = repositories]_vars
    /\ \A i \in 1..MaxRuns :
          (Len(intervals) >= i /\ Orphan(i))
          ~> (/\ Len(intervals) >= i
              /\ CreatedRun(i).stage = "completed"
              /\ CreatedRun(i).progress = 100)

\* C18 witness: a run whose repository has been removed has completed, and the
\* repository is still absent
C18_Witness ==
    \E i \in 1..Len(intervals) :
       /\ Orphan(i)
       /\ ~intervals[i].active
       /\ CreatedRun(i).stage = "completed"
       /\ Len(repositories) = Len(SeedRepositories) - 1

----------------------------------------------------------------------------
(* C19 *)

\* an analysis timeout of the repository id t is pending
AnalysisPending(t) ==
    \E k \in 1..Len(timers) : timers[k] = [kind |-> "analysis", repoId |-> t]

\* C19: each successful connect schedules one analysis, which completes (fair
\* timers) and then makes exactly one review insertion: at the head of the list,
\* with author 'ai-analysis', status 'completed', the new repository's id and the
\* score given to that repository in the same step; reviews are inserted by
\* nothing else; a manual review trigger and its completion leave the reviews
\* unchanged.
C19_OneReviewPerConnect ==
    /\ [][\A url \in Urls :
             (addRepository(url) /\ last'.res = "true")
             => /\ reviews' = reviews
                /\ timers' =
                      Append(timers,
                             [kind |-> "analysis",
                              repoId |-> repositories'[Len(repositories')].id])]_vars
    /\ [][AnalysisFires
          => /\ Len(reviews') = Len(reviews) + 1
             /\ Tail(reviews') = reviews
             /\ Head(reviews').author = "ai-analysis"
             /\ Head(reviews').status = "completed"
             /\ Head(reviews').repositoryId = Head(timers).repoId
             /\ \A j \in 1..Len(repositories) :
                   repositories[j].id = Head(timers).repoId
                   => repositories'[j].qualityScore = Head(reviews').qualityScore]_vars
    /\ [][Len(reviews') > Len(reviews) => AnalysisFires]_vars
    /\ [][((\E i \in 1..Len(repositories) : reviewButton(i)) \/ ManualReviewFires)
          => reviews' = reviews]_vars
    /\ \A t \in ClockStart..(ClockStart + MaxOps) :
          AnalysisPending(t) ~> ~AnalysisPending(t)

\* C19 witness: the analysis of a connected repository has just put its review at
\* the head of the list, with the score it gave the repository
C19_Witness ==
    /\ last.op = "analysisCallback"
    /\ Len(reviews) = Len(SeedReviews) + 1
    /\ Head(reviews).author = "ai-analysis"
    /\ \E r \in Range(repositories) :
          /\ r.id = Head(reviews).repositoryId
          /\ r.qualityScore = Head(reviews).qualityScore
          /\ r.qualityScore = 85

----------------------------------------------------------------------------
(* C20 *)

\* the fields of a repository other than its status
OtherFields == {"id", "owner", "name", "qualityScore", "pullRequests", "isAnalyzing"}

\* C20: updateRepositoryStatus(id, s) is an unconditional overwrite: on every
\* registry the program reaches, for every id (of the registry, or of no
\* repository) and every status s, the repositories with that id get status s
\* whatever their status was, keep every other field, every other repository is
\* unchanged, and nothing changes when no repository has the id.
C20_UpdateStatusOverwrites ==
    \A id \in {r.id : r \in Range(repositories)} \cup {0}, s \in Statuses :
       LET out == updateRepositoryStatus(repositories, id, s)
       IN  /\ Len(out) = Len(repositories)
           /\ \A j \in 1..Len(repositories) :
                 IF repositories[j].id = id
                 THEN /\ out[j].status = s
                      /\ DOMAIN out[j] = DOMAIN repositories[j]
                      /\ \A f \in OtherFields : out[j][f] = repositories[j][f]
                 ELSE out[j] = repositories[j]
           /\ (\A r \in Range(repositories) : r.id # id) => out = repositories

\* C20 witness: the manual review of api-service has overwritten its status
\* 'deploying' with 'reviewing' and left its other fields as they were
C20_Witness ==
    /\ last.op = "triggerManualReview"
    /\ \E r \in Range(repositories) :
          /\ r.id = 2
          /\ r.status = "reviewing"
          /\ r.qualityScore = 87
          /\ r.pullRequests = 1

----------------------------------------------------------------------------
(* C21 *)

\* C21: every repository of the registry has a unique identifier and every run
\* of the pipeline list has a unique identifier.  (Refuted: the identifier is the
\* reading of the millisecond clock, which two calls in the same millisecond
\* share.)
C21_UniqueIds ==
    /\ \A i, j \in 1..Len(repositories) :
          repositories[i].id = repositories[j].id => i = j
    /\ \A i, j \in 1..Len(pipelines) :
          pipelines[i].id = pipelines[j].id => i = j

----------------------------------------------------------------------------
(* C22 *)

\* the positions of the runs of repository id that are in a non-terminal stage
ActiveRuns(runs, id) ==
    {i \in 1..Len(runs) : /\ runs[i].repositoryId = id
                          /\ runs[i].stage # "completed"
                          /\ runs[i].stage # "failed"}

\* C22: nothing enforces at most one active run per repository: a call of
\* triggerDeployment (Deploy button or retry) on a repository with quality score
\* >= 85 adds one non-terminal run for it however many non-terminal runs it
\* already has, so two non-terminal runs of one repository are reachable.
C22_NoSingleActiveRun ==
    [][\A repo \in Range(repositories), environment \in Environments :
          (repo.qualityScore >= 85 /\ TriggerInvoked(repo, environment))
          => Cardinality(ActiveRuns(pipelines', repo.id))
                = Cardinality(ActiveRuns(pipelines, repo.id)) + 1]_vars

\* C22 witness: two runs created by triggerDeployment for one repository are
\* both in a non-terminal stage
C22_Witness ==
    \E i, j \in 1..Len(intervals) :
       /\ i < j
       /\ CreatedRun(i).repositoryId = CreatedRun(j).repositoryId
       /\ {i, j} \subseteq {k \in 1..Len(intervals) :
                              CreatedRun(k).stage \notin {"completed", "failed"}}
       /\ \E r \in Range(repositories) :
             r.id = CreatedRun(i).repositoryId /\ r.qualityScore >= 85

----------------------------------------------------------------------------
(* C23 *)

\* C23: the deployment threshold is fixed at 85: a call of triggerDeployment is
\* rejected exactly when the repository's quality score is below 85 and creates a
\* run exactly when it is at least 85, whatever the value of the 'Minimum Quality
\* Score for Deployment' setting.
C23_ThresholdFixed ==
    [][\A repo \in Range(repositories), environment \in Environments :
          TriggerInvoked(repo, environment)
          => /\ (last'.res = "rejected") = (repo.qualityScore < 85)
             /\ (last'.res = "created") = (repo.qualityScore >= 85)
             /\ minQualityScore' = minQualityScore]_vars

\* C23 witness: with the setting at 50, a retry for mobile-app (score 74, above
\* the setting and below 85) has just been rejected
C23_Witness ==
    /\ minQualityScore = 50
    /\ last = [op |-> "retryDeployment", res |-> "rejected"]
    /\ \E r \in Range(repositories) : r.id = 3 /\ r.qualityScore \in 50..84

----------------------------------------------------------------------------
(* C24 *)

\* C24: in every reachable state every review has the repositoryId of a
\* repository that is in the registry.  (Refuted: the analysis timer of a
\* repository removed meanwhile still inserts its review.)
C24_NoOrphanReview ==
    \A v \in Range(reviews) : \E r \in Range(repositories) : r.id = v.repositoryId

----------------------------------------------------------------------------
(* C25 *)

\* the i-th created run is cancelled: a created run is 'failed' by cancelDeployment only
Cancelled(i) == Len(intervals) >= i /\ CreatedRun(i).stage = "failed"

\* the i-th created run is completed
Completed(i) == Len(intervals) >= i /\ CreatedRun(i).stage = "completed"

\* C25: a run that has been cancelled never causes a deployment: from the
\* cancellation on the run never reaches stage 'completed'.  (Refuted: the
\* interval is not cleared by cancelDeployment; its ticks go on, complete the run
\* and set the repository 'deployed'.)
C25_CancelledNeverCompletes ==
    \A i \in 1..MaxRuns : [](Cancelled(i) => [](~Completed(i)))

----------------------------------------------------------------------------
(* C26 *)

\* the created runs of repository id that are in a non-terminal stage
ActiveCreatedRuns(id) ==
    {i \in 1..Len(intervals) : /\ CreatedRun(i).repositoryId = id
                               /\ CreatedRun(i).stage # "completed"
                               /\ CreatedRun(i).stage # "failed"}

\* C26 as stated: whenever a repository of the registry has a created run in a
\* non-terminal stage, its status is 'deploying'.
C26_ActiveRunMeansDeploying ==
    \A r \in Range(repositories) :
       ActiveCreatedRuns(r.id) # {} => r.status = "deploying"

\* C26 amended: a successful triggerDeployment sets the repository's status to
\* 'deploying'; while the repository has a created run in a non-terminal stage,
\* its status leaves 'deploying' only by an unconditional overwrite of another
\* operation: a manual review of it (trigger or completion), the completion of
\* its connect analysis, or the completing tick of one of its runs.
C26_DeployingUntilOverwritten ==
    /\ [][\A repo \in Range(repositories), environment \in Environments :
             (repo.qualityScore >= 85 /\ TriggerInvoked(repo, environment))
             => \A j \in 1..Len(repositories) :
                   repositories[j].id = repo.id
                   => repositories'[j].status = "deploying"]_vars
    /\ [][\A j \in 1..Len(repositories) :
             (/\ repositories[j].status = "deploying"
              /\ ActiveCreatedRuns(repositories[j].id) # {}
              /\ j <= Len(repositories')
              /\ repositories'[j].id = repositories[j].id
              /\ repositories'[j].status # "deploying")
             => \/ reviewButton(j)
                \/ (/\ timers # <<>>
                    /\ Head(timers).repoId = repositories[j].id
                    /\ timeoutFires)
                \/ \E i \in 1..Len(intervals) :
                      /\ intervals[i].repoId = repositories[j].id
                      /\ tickOf(i)
                      /\ ~intervals'[i].active]_vars

\* C26 witness: a repository with a created run in a non-terminal stage has just
\* been put to 'reviewing' by a manual review
C26_Witness ==
    /\ last.op = "triggerManualReview"
    /\ \E r \in Range(repositories) :
          ActiveCreatedRuns(r.id) # {} /\ r.status = "reviewing"

----------------------------------------------------------------------------
(* C27 *)

\* C27: in every reachable state no two repositories of the registry have the
\* same owner and the same name.
C27_UniqueOwnerName ==
    \A i, j \in 1..Len(repositories) :
       (repositories[i].owner = repositories[j].owner
          /\ repositories[i].name = repositories[j].name) => i = j

\* C27 witness: with a connected repository in the registry, a further connect
\* has just been refused as a duplicate
C27_Witness ==
    /\ last.op = "addRepository"
    /\ last.res = "false"
    /\ last.error = "Repository already connected"
    /\ \E r \in Range(repositories) : r.id >= ClockStart

----------------------------------------------------------------------------
(* C28 *)

\* the step is the completion of a refresh: only the setTimeout callback of
\* refreshRepositories consumes the pending refresh timer
RefreshCompletes == refreshTimer /\ ~refreshTimer'

\* the step is the trigger of a refresh: only refreshRepositories arms the timer
RefreshTriggered == ~refreshTimer /\ refreshTimer'

\* C28: the completion of a refresh gives every repository the quality score
\* max(50, old score + d) for some integer d in -5..4, hence at least 50, and
\* leaves the repositories present, their ids, status, isAnalyzing flag and
\* pull-request count and the review list as they were; isRefreshing is true
\* from the trigger until that completion and false afterwards.
C28_RefreshEffect ==
    /\ [][RefreshCompletes =>
            /\ Len(repositories') = Len(repositories)
            /\ \A i \in 1..Len(repositories) :
                  /\ \E d \in -5..4 :
                        repositories'[i].qualityScore =
                           Max(50, repositories[i].qualityScore + d)
                  /\ repositories'[i].qualityScore >= 50
                  /\ repositories'[i].id = repositories[i].id
                  /\ repositories'[i].owner = repositories[i].owner
                  /\ repositories'[i].name = repositories[i].name
                  /\ repositories'[i].status = repositories[i].status
                  /\ repositories'[i].isAnalyzing = repositories[i].isAnalyzing
                  /\ repositories'[i].pullRequests = repositories[i].pullRequests
            /\ reviews' = reviews
            /\ isRefreshing
            /\ ~isRefreshing']_vars
    /\ [][RefreshTriggered => ~isRefreshing /\ isRefreshing']_vars
    /\ [][isRefreshing' # isRefreshing => RefreshTriggered \/ RefreshCompletes]_vars
    /\ [](isRefreshing <=> refreshTimer)

\* C28 witness: a refresh has just completed and lifted the score of a
\* repository under analysis (0 until its analysis ends) to the floor of 50
C28_Witness ==
    /\ last.op = "refreshCallback"
    /\ ~isRefreshing
    /\ \E r \in Range(repositories) : r.isAnalyzing /\ r.qualityScore = 50

----------------------------------------------------------------------------
(* C29 *)

\* C29: every run created by triggerDeployment is at stage 'completed' only
\* after at least 6 and at most 20 ticks of its interval, the first of them at
\* which its accumulated progress is >= 100.  (Refuted: the tick writes by run
\* id, so a run whose id another run shares is set 'completed' by the other
\* run's interval, before its own has ticked at all.  A cancelled run needs no
\* exception: its interval goes on ticking and completes it within the same
\* bounds.)
C29_CompletedAfterSixToTwentyTicks ==
    \A i \in 1..Len(intervals) :
       Completed(i) =>
          /\ intervals[i].ticks >= 6
          /\ intervals[i].ticks <= 20
          /\ intervals[i].progress >= 100 * HalfUnits

\* what does hold: an interval clears itself at the first tick where its own
\* accumulated progress is >= 100, which is its 6th to 20th tick
C29_OwnIntervalTicks ==
    \A i \in 1..Len(intervals) :
       /\ intervals[i].ticks <= 20
       /\ ~intervals[i].active <=> intervals[i].progress >= 100 * HalfUnits
       /\ ~intervals[i].active => intervals[i].ticks >= 6

----------------------------------------------------------------------------
(* C30 *)

\* a response timer is pending
ResponsePending == responseTimers # <<>>

\* messages[k] is an AI response that directly or later follows the user
\* message it answers
Answers(k) ==
    \E j \in 1..(k - 1) : messages[j].type = "user" /\ messages[j].seq = messages[k].seq

\* C30: in the chat isTyping is true exactly when a response timer is pending,
\* every AI response in the list comes after the user message it answers, and
\* no user message has more than one response; also when messages are sent with
\* the Enter key while a response is pending and when the chat is cleared while
\* a response is pending.  (Refuted: the first response to arrive sets isTyping
\* to false whatever is still pending, and a response pending at a clear is
\* appended to the cleared list.)
C30_TypingIffPending ==
    /\ isTyping <=> ResponsePending
    /\ \A k \in 2..Len(messages) : messages[k].type = "ai" => Answers(k)
    /\ \A j, k \in 2..Len(messages) :
          (messages[j].type = "ai" /\ messages[k].type = "ai"
             /\ messages[j].seq = messages[k].seq) => j = k

\* the Enter route on its own: a state where the indicator is off with a
\* response still pending is never reached
C30_IndicatorWhilePending == ResponsePending => isTyping

====
